---- MODULE Spec2Model ----
(***************************************************************************)
(* Model of the scoped-api user-account service: the users table with its  *)
(* store-level uniqueness constraints, the request handlers that create    *)
(* and update principals, and the bearer-token authorizer.                 *)
(*                                                                         *)
(* Python strings that the code inspects character by character (scope     *)
(* strings) are sequences of one-character strings; strings that are only  *)
(* compared for equality (usernames, e-mail addresses, response details,   *)
(* constraint names) are TLA+ strings.                                     *)
(***************************************************************************)
EXTENDS Integers, Sequences, FiniteSets, TLC

VARIABLES users, nextId, req, now, issued, db_manager, issued_to

vars == <<users, nextId, req, now, issued, db_manager, issued_to>>

(***************************************************************************)
(* Bounds of the model.                                                    *)
(***************************************************************************)
\* number of requests that can be in flight at the same time
NumReq == 2
\* last value the users.id sequence hands out
MaxId == 2
\* number of token lifetimes the clock runs through
MaxTime == 1

Slots == 1..NumReq

(***************************************************************************)
(* Strings.                                                                *)
(***************************************************************************)
S_empty == << >>
S_space == <<" ">>
S_user == <<"u", "s", "e", "r">>
S_admin == <<"a", "d", "m", "i", "n">>
S_super == <<"s", "u", "p", "e", "r">>
S_superadmin == S_super \o S_admin
S_admin_user == S_admin \o S_space \o S_user
S_superadmin_user == S_superadmin \o S_space \o S_user

\* Python `needle in hay` for two str operands: substring containment.
str_contains(needle, hay) ==
    \E i \in 0..(Len(hay) - Len(needle)) :
        SubSeq(hay, i + 1, i + Len(needle)) = needle

\* Python `" ".join(parts)`.
RECURSIVE str_join(_)
str_join(parts) ==
    IF Len(parts) = 0 THEN S_empty
    ELSE IF Len(parts) = 1 THEN parts[1]
    ELSE parts[1] \o S_space \o str_join(Tail(parts))

(***************************************************************************)
(* The users table (app/db/users.py).                                      *)
(***************************************************************************)
\* SQL NULL / Python None for the optional string columns
NULL == "<NULL>"

Usernames == {"alice", "bob"}
Emails == {"a@example.com"}
Passwords == {"Secret123!"}
Salts == {"salt1"}

\* the names under which the two uniqueness rules exist in the store:
\* username is declared unique=True, index=True  -> unique index ix_users_username
\* email    is declared unique=True (no index)   -> unique constraint users_email_key
UsernameConstraint == "ix_users_username"
EmailConstraint == "users_email_key"

NoRow == [id |-> 0]

\* a table that enforces the uniqueness of the username only
UniqueViolationsUsernameOnly(row, table) ==
    LET others == {x \in table : x.id # row.id}
    IN  {c \in {"ix_users_username"} : \E x \in others : x.username = row.username}

\* A uniqueness rule of the table is violated by `row` against the rows of
\* `table` that are other rows (another id).  NULL e-mails are never compared.
UniqueViolations(row, table) ==
    LET others == {x \in table : x.id # row.id}
    IN  {c \in {UsernameConstraint, EmailConstraint} :
            \/ c = UsernameConstraint
               /\ \E x \in others : x.username = row.username
            \/ c = EmailConstraint
               /\ row.email # NULL
               /\ \E x \in others : x.email = row.email}

(***************************************************************************)
(* Responses.                                                              *)
(***************************************************************************)
NoResponse == [status |-> 0]

HTTPException(status_code, detail, headers) ==
    [status |-> status_code, detail |-> detail, headers |-> headers, body |-> NoRow]

Ok(body) ==
    [status |-> 200, detail |-> "OK", headers |-> << >>, body |-> body]

UsernameConflict ==
    HTTPException(409, "A user with this username already exists.", << >>)
EmailConflict ==
    HTTPException(409, "A user with this email already exists.", << >>)
DatabaseError ==
    HTTPException(500, "A database error occurred.", << >>)
\* an exception no handler catches: the framework's bare 500
InternalServerError ==
    HTTPException(500, "Internal Server Error", << >>)

(***************************************************************************)
(* Credential codec (app/auth/auth.py).                                    *)
(***************************************************************************)
\* bcrypt.hashpw(password, bcrypt.gensalt()): the digest is a function of the
\* salt and the password and carries the salt
get_password_hash(password, salt) == <<"bcrypt", salt, password>>

\* a digest bcrypt can parse: one that bcrypt.hashpw produced
bcrypt_digest(hashed_password) ==
    Len(hashed_password) = 3 /\ hashed_password[1] = "bcrypt"

\* verify_password raises: the digest is not empty, and bcrypt.checkpw cannot
\* parse it (ValueError: Invalid salt); nothing in verify_password catches it
verify_password_raises(plain_password, hashed_password) ==
    hashed_password # << >> /\ ~bcrypt_digest(hashed_password)

\* bcrypt.checkpw: hash the plain password under the digest's salt and compare
verify_password(plain_password, hashed_password) ==
    /\ hashed_password # << >>
    /\ get_password_hash(plain_password, hashed_password[2]) = hashed_password

(***************************************************************************)
(* create_user (user/create.py).                                           *)
(***************************************************************************)
NoUserCreate == [username |-> NULL]

\* a pre-flight query that looks for the username only
PreflightRowsByUsername(table, user) ==
    {x \in table : x.username = user.username}

\* select(DBUser).where(or_(username == user.username, email == user.email)):
\* a comparison of a column with Python None is rendered `IS NULL`, so an
\* e-mail-less request matches every row whose e-mail is NULL.
PreflightRows(table, user) ==
    {x \in table :
        \/ x.username = user.username
        \/ IF user.email = NULL THEN x.email = NULL ELSE x.email = user.email}

\* the two `if` statements on existing_user (Python ==, None == None is True)
PreflightResponse(existing_user, user) ==
    IF existing_user.username = user.username THEN UsernameConflict
    ELSE IF existing_user.email = user.email THEN EmailConflict
    ELSE NoResponse

\* DBUser(...) built from the request; the id is assigned by the store
NewDBUser(user, salt) ==
    [id |-> 0,
     username |-> user.username,
     email |-> user.email,
     hashed_password |-> get_password_hash(user.password, salt),
     full_name |-> user.full_name,
     disabled |-> user.disabled,
     scopes |-> IF user.scopes = S_empty THEN S_user ELSE user.scopes]

\* except IntegrityError: the constraint named in str(e.orig) decides
IntegrityErrorResponse(error_msg) ==
    IF error_msg = "ix_users_username" THEN UsernameConflict
    ELSE IF error_msg = "ix_users_email" THEN EmailConflict
    ELSE DatabaseError

(***************************************************************************)
(* Bearer tokens and the authorizer (user/get.py, app/auth/token_schema.py) *)
(***************************************************************************)
\* settings.ALGORITHM
ALGORITHM == "HS256"

NoSub == "<no sub>"
NoToken == [present |-> FALSE]

\* a bearer token as the authorizer sees it: whether it parses, the algorithm
\* its header names, whether its signature verifies under SECRET_KEY, whether
\* its sub and scopes claims are strings, and its claims
Token(wellformed, alg, signed, typed, sub, scopes, exp) ==
    [present |-> TRUE, wellformed |-> wellformed, alg |-> alg, signed |-> signed,
     typed |-> typed, sub |-> sub, scopes |-> scopes, exp |-> exp]

\* settings.ACCESS_TOKEN_EXPIRE_MINUTES; the clock counts minutes
ACCESS_TOKEN_EXPIRE_MINUTES == 30

\* timedelta(minutes=...) and None, the values of expires_delta
timedelta(minutes) == [minutes |-> minutes]
NoDelta == [none |-> TRUE]

\* `if expires_delta:` -- None and timedelta(0) are falsy
truthy_delta(expires_delta) ==
    expires_delta # NoDelta /\ expires_delta.minutes # 0

\* a create_access_token whose default lifetime is no time at all
create_access_token_no_default(sub, scopes, expires_delta, time) ==
    [present |-> TRUE, wellformed |-> TRUE, alg |-> "HS256", signed |-> TRUE,
     typed |-> TRUE, sub |-> sub, scopes |-> scopes,
     exp |-> IF truthy_delta(expires_delta)
             THEN time + expires_delta.minutes ELSE time]

\* create_access_token(data={"sub": ..., "scopes": ...}, expires_delta) at
\* instant `time`: a falsy expires_delta gives the 15 minutes default
create_access_token(sub, scopes, expires_delta, time) ==
    Token(TRUE, ALGORITHM, TRUE, TRUE, sub, scopes,
          IF truthy_delta(expires_delta)
          THEN time + expires_delta.minutes ELSE time + 15)

\* a jwt.decode that accepts a token at the instant of its exp claim
jwt_decode_until_exp(token, time) ==
    IF ~token.wellformed THEN "DecodeError"
    ELSE IF token.alg # "HS256" THEN "InvalidAlgorithmError"
    ELSE IF ~token.signed THEN "InvalidSignatureError"
    ELSE IF token.exp < time THEN "ExpiredSignatureError"
    ELSE "ok"

\* jwt.decode(token, SECRET_KEY, algorithms=[ALGORITHM]): the
\* InvalidTokenError it raises, or "ok"
jwt_decode(token, time) ==
    IF ~token.wellformed THEN "DecodeError"
    ELSE IF token.alg # ALGORITHM THEN "InvalidAlgorithmError"
    ELSE IF ~token.signed THEN "InvalidSignatureError"
    ELSE IF token.exp <= time THEN "ExpiredSignatureError"
    ELSE "ok"

\* the try block of get_current_user: TokenData(scopes=..., username=...), or
\* the reason for the credentials_exception
token_data(token, time) ==
    LET err == jwt_decode(token, time)
        raise(failure) == [failure |-> failure, username |-> NoSub, scopes |-> S_empty]
    IN  IF err # "ok" THEN raise(err)
        ELSE IF token.sub = NoSub THEN raise("no_sub")
        ELSE IF ~token.typed THEN raise("ValidationError")
        ELSE [failure |-> "none", username |-> token.sub, scopes |-> token.scopes]

\* get_user: select(User).where(User.username == username), first row or None
get_user(table, username) ==
    IF \E x \in table : x.username = username
    THEN CHOOSE x \in table : x.username = username
    ELSE NoRow

\* authenticate_user lets the ValueError of verify_password through
authenticate_user_raises(table, username, password) ==
    LET user == get_user(table, username)
    IN  user # NoRow /\ verify_password_raises(password, user.hashed_password)

\* an authenticate_user that accepts every password of a known username
authenticate_user_any_password(table, username, password) ==
    get_user(table, username)

\* an authenticate_user that turns a disabled principal away
authenticate_user_active_only(table, username, password) ==
    LET user == get_user(table, username)
    IN  IF user = NoRow THEN NoRow
        ELSE IF ~verify_password(password, user.hashed_password) THEN NoRow
        ELSE IF user.disabled THEN NoRow
        ELSE user

\* authenticate_user: the principal, or None
authenticate_user(table, username, password) ==
    LET user == get_user(table, username)
    IN  IF user = NoRow THEN NoRow
        ELSE IF ~verify_password(password, user.hashed_password) THEN NoRow
        ELSE user

incorrect_username_or_password ==
    HTTPException(401, "Incorrect username or password", <<"Bearer">>)

\* the WWW-Authenticate value: 'Bearer scope="<scope_str>"' or 'Bearer'
authenticate_value(security_scopes) ==
    IF Len(security_scopes) > 0
    THEN <<"Bearer scope=", str_join(security_scopes)>>
    ELSE <<"Bearer">>

credentials_exception(security_scopes) ==
    HTTPException(401, "Could not validate credentials",
                  authenticate_value(security_scopes))

\* a scope rejection that is the credentials rejection
scope_rejection_as_credentials(security_scopes) ==
    HTTPException(401, "Could not validate credentials",
                  authenticate_value(security_scopes))

not_enough_permissions(security_scopes) ==
    HTTPException(401, "Not enough permissions",
                  authenticate_value(security_scopes))

\* OAuth2PasswordBearer: no bearer token in the request
not_authenticated ==
    HTTPException(401, "Not authenticated", <<"Bearer">>)

\* `scope not in token_data.scopes` for one required scope; token_data.scopes
\* is a str
scope_missing(scope, token_scopes) == ~str_contains(scope, token_scopes)

\* an authorizer that answers an unknown subject differently from a bad token
get_current_user_disclosing(security_scopes, token, table, time) ==
    LET raise(failure, exc) ==
            [failure |-> failure, user |-> NoRow, response |-> exc]
        err == jwt_decode(token, time)
    IN  IF err # "ok"
        THEN raise(err, credentials_exception(security_scopes))
        ELSE IF token.sub = NoSub
        THEN raise("no_sub", credentials_exception(security_scopes))
        ELSE IF ~token.typed
        THEN raise("ValidationError", credentials_exception(security_scopes))
        ELSE LET user == get_user(table, token.sub)
             IN  IF user = NoRow
                 THEN raise("unknown_user",
                            HTTPException(404, "User not found",
                                          authenticate_value(security_scopes)))
                 ELSE IF \E i \in 1..Len(security_scopes) :
                            scope_missing(security_scopes[i], token.scopes)
                 THEN raise("scope", not_enough_permissions(security_scopes))
                 ELSE [failure |-> "none", user |-> user, response |-> NoResponse]

\* an authorizer that checks the required scopes against the scopes the
\* principal has in the store
get_current_user_stored_scopes(security_scopes, token, table, time) ==
    LET raise(failure, exc) ==
            [failure |-> failure, user |-> NoRow, response |-> exc]
        err == jwt_decode(token, time)
    IN  IF err # "ok"
        THEN raise(err, credentials_exception(security_scopes))
        ELSE IF token.sub = NoSub
        THEN raise("no_sub", credentials_exception(security_scopes))
        ELSE IF ~token.typed
        THEN raise("ValidationError", credentials_exception(security_scopes))
        ELSE LET user == get_user(table, token.sub)
             IN  IF user = NoRow
                 THEN raise("unknown_user", credentials_exception(security_scopes))
                 ELSE IF \E i \in 1..Len(security_scopes) :
                            scope_missing(security_scopes[i], user.scopes)
                 THEN raise("scope", not_enough_permissions(security_scopes))
                 ELSE [failure |-> "none", user |-> user, response |-> NoResponse]

\* get_current_user: the principal it returns, or the exception it raises and
\* the check that raised it
get_current_user(security_scopes, token, table, time) ==
    LET raise(failure, exc) ==
            [failure |-> failure, user |-> NoRow, response |-> exc]
        err == jwt_decode(token, time)
    IN  IF err # "ok"
        THEN raise(err, credentials_exception(security_scopes))
        ELSE IF token.sub = NoSub
        THEN raise("no_sub", credentials_exception(security_scopes))
        ELSE IF ~token.typed
        THEN raise("ValidationError", credentials_exception(security_scopes))
        ELSE LET user == get_user(table, token.sub)
             IN  IF user = NoRow
                 THEN raise("unknown_user", credentials_exception(security_scopes))
                 ELSE IF \E i \in 1..Len(security_scopes) :
                            scope_missing(security_scopes[i], token.scopes)
                 THEN raise("scope", not_enough_permissions(security_scopes))
                 ELSE [failure |-> "none", user |-> user, response |-> NoResponse]

inactive_user == HTTPException(400, "Inactive user", << >>)

\* an active check that lets every principal through
get_current_active_user_unchecked(current_user) ==
    [failure |-> "none", user |-> current_user, response |-> NoResponse]

\* get_current_active_user, applied to the principal get_current_user returned
get_current_active_user(current_user) ==
    IF current_user.disabled
    THEN [failure |-> "inactive", user |-> NoRow, response |-> inactive_user]
    ELSE [failure |-> "none", user |-> current_user, response |-> NoResponse]

\* Security(get_current_user, scopes=["admin user"]) of get_current_active_user
ActiveUserScopes == <<S_admin_user>>
\* Security(get_current_active_user, scopes=[...]) of the endpoints
MeScopes == <<S_admin_user>>
AdminScopes == <<S_admin>>

\* the scopes an endpoint's dependency chain hands to get_current_user
SecurityScopes(endpoint_scopes) == endpoint_scopes \o ActiveUserScopes

\* the dependency chain of an endpoint declared with
\* Security(get_current_active_user, scopes=endpoint_scopes)
Authorize(endpoint_scopes, token, table, time) ==
    IF ~token.present
    THEN [failure |-> "no_token", user |-> NoRow, response |-> not_authenticated]
    ELSE LET a == get_current_user(SecurityScopes(endpoint_scopes), token, table, time)
         IN  IF a.failure # "none" THEN a ELSE get_current_active_user(a.user)

(***************************************************************************)
(* Partial updates (user/user.py, UserBaseUpdate and UserFullUpdate).      *)
(***************************************************************************)
ProfileFields == {"username", "email", "full_name"}
PrivilegedFields == {"disabled", "scopes"}

NoValues ==
    [username |-> NULL, email |-> NULL, full_name |-> NULL, disabled |-> FALSE,
     scopes |-> S_empty]

\* a request body: the fields it sets and their values
Payload(fields, values) == [fields |-> fields, values |-> values]
NoPayload == Payload({}, NoValues)

\* model_dump(exclude_unset=True) of the schema the endpoint declares: the
\* fields the schema does not have are dropped from the body
model_dump(schema_fields, payload) ==
    Payload(payload.fields \cap schema_fields, payload.values)

\* a loop that assigns every column of the schema, set in the body or not
setattrs_every_field(user, update_data) ==
    [id |-> user.id,
     username |-> IF "username" \in update_data.fields
                  THEN update_data.values.username ELSE user.username,
     email |-> update_data.values.email,
     hashed_password |-> user.hashed_password,
     full_name |-> update_data.values.full_name,
     disabled |-> user.disabled,
     scopes |-> user.scopes]

\* for key, value in update_data.items(): setattr(user, key, value)
setattrs(user, update_data) ==
    [id |-> user.id,
     username |-> IF "username" \in update_data.fields
                  THEN update_data.values.username ELSE user.username,
     email |-> IF "email" \in update_data.fields
               THEN update_data.values.email ELSE user.email,
     hashed_password |-> user.hashed_password,
     full_name |-> IF "full_name" \in update_data.fields
                   THEN update_data.values.full_name ELSE user.full_name,
     disabled |-> IF "disabled" \in update_data.fields
                  THEN update_data.values.disabled ELSE user.disabled,
     scopes |-> IF "scopes" \in update_data.fields
                THEN update_data.values.scopes ELSE user.scopes]

\* the attributes whose value the setattr loop changed: the columns of the
\* UPDATE statement the flush emits
ChangedFields(loaded, update_data) ==
    LET after == setattrs(loaded, update_data)
    IN  {f \in update_data.fields :
            \/ f = "username" /\ after.username # loaded.username
            \/ f = "email" /\ after.email # loaded.email
            \/ f = "full_name" /\ after.full_name # loaded.full_name
            \/ f = "disabled" /\ after.disabled # loaded.disabled
            \/ f = "scopes" /\ after.scopes # loaded.scopes}

user_not_found == HTTPException(404, "User not found.", << >>)
user_id_not_found == HTTPException(404, "User with ID {user_id} not found.", << >>)

\* the body of GET /status/
StatusBody(current_user) ==
    [id |-> 0, status |-> "ok", user |-> current_user.username, is_admin |-> TRUE]

(***************************************************************************)
(* Requests.                                                               *)
(***************************************************************************)
NoError == "<none>"

\* session = self.sessionmaker(): no transaction, nothing written.  `new` are
\* the rows written and not yet committed, `body` is how the body of the scope
\* ended, `exc` the exception that leaves the scope.  The rest is history:
\* `in_scope` are all the rows the scope wrote, `by_body` those the body
\* committed itself, `caught_in_transaction` whether the except clause found
\* the session in a transaction, and the calls of commit, rollback and close
\* with `rollback_failed` and `close_failed` for the calls that raised,
\* `origin` the operation whose exception entered the except clause ("body" or
\* "commit") and `leaves` the operation whose exception leaves the scope.
NoSession ==
    [in_transaction |-> FALSE, new |-> {}, body |-> "none", exc |-> "none",
     in_scope |-> {}, by_body |-> {}, caught_in_transaction |-> FALSE,
     commit_calls |-> 0, rollback_calls |-> 0, close_calls |-> 0,
     rollback_failed |-> FALSE, close_failed |-> FALSE,
     origin |-> "none", leaves |-> "none"]

\* DatabaseManager.__init__: no engine, no session factory, not initialized.
\* An engine is a positive number, None is 0; the session factory is the
\* engine it is bound to, which may be None.  `created` and `disposed` are history: the engines
\* create_async_engine returned and the engines dispose() released; `clean`
\* says that no initialize has failed and no shutdown has run.
NoSessionmaker == [none |-> TRUE]

DatabaseManager ==
    [engine |-> 0, sessionmaker |-> NoSessionmaker, initialized |-> FALSE,
     created |-> {}, disposed |-> {}, clean |-> TRUE]

\* a request slot: the endpoint, the position in its handler, its inputs,
\* the handler's local variables and the response.  `engine` is the engine a
\* call of the manager holds a connection of.  `rivals` is history: the
\* registrations that had passed the pre-flight check and not yet inserted at
\* the moment this one passed it.
IdleRequest ==
    [op |-> "idle", pc |-> "idle", user |-> NoUserCreate, token |-> NoToken,
     security_scopes |-> << >>, user_id |-> 0, update_data |-> NoPayload,
     current_user |-> NoRow, db_user |-> NoRow, failure |-> "none",
     error_msg |-> NoError, response |-> NoResponse, rivals |-> {},
     session |-> NoSession, engine |-> 0]

\* the slot serves the next request: the lowest slot whose request has been
\* answered (slots are interchangeable)
Answered(r) == req[r].pc \in {"idle", "done"}
Free(r) == Answered(r) /\ \A q \in Slots : q < r => ~Answered(q)

\* rows written by the open transactions of the other requests
UncommittedOf(r) ==
    {req[q].db_user : q \in {q \in Slots : q # r /\ req[q].pc = "commit"}}

Init ==
    /\ users = {}
    /\ nextId = 1
    /\ req = [r \in Slots |-> IdleRequest]
    /\ now = 0
    /\ issued = {}
    /\ db_manager = DatabaseManager
    /\ issued_to = {}

\* POST /register up to the end of the pre-flight check of create_user
register_user(r, user) ==
    /\ Free(r)
    /\ LET matches == PreflightRows(users, user)
           passed(salt) == [IdleRequest EXCEPT !.op = "register", !.pc = "flush",
                                               !.user = user,
                                               !.db_user = NewDBUser(user, salt),
                                               !.rivals = {q \in Slots \ {r} :
                                                            /\ req[q].op = "register"
                                                            /\ req[q].pc = "flush"}]
       IN  \/ /\ matches = {}
              /\ \E salt \in Salts : req' = [req EXCEPT ![r] = passed(salt)]
           \/ \E existing_user \in matches :
                 LET resp == PreflightResponse(existing_user, user)
                 IN  IF resp = NoResponse
                     THEN \E salt \in Salts : req' = [req EXCEPT ![r] = passed(salt)]
                     ELSE req' = [req EXCEPT ![r] =
                                    [IdleRequest EXCEPT !.op = "register",
                                                        !.pc = "done",
                                                        !.user = user,
                                                        !.response = resp]]
    /\ UNCHANGED <<users, nextId, now, issued, db_manager, issued_to>>

\* the fields of UserCreate without a default (user/user.py)
RequiredUserCreateFields == {"username", "scopes", "password"}

\* the request validation error of a body that lacks a required field
unprocessable_entity == HTTPException(422, "Field required", << >>)

\* UserCreate validated from a JSON body: the fields the body leaves out take
\* their defaults; fields_set is the model's model_fields_set
UserCreate(body) ==
    [username |-> body.values.username,
     email |-> IF "email" \in body.fields THEN body.values.email ELSE NULL,
     full_name |-> IF "full_name" \in body.fields
                   THEN body.values.full_name ELSE NULL,
     disabled |-> IF "disabled" \in body.fields THEN body.values.disabled ELSE FALSE,
     scopes |-> body.values.scopes,
     password |-> body.values.password,
     fields_set |-> body.fields]

\* POST /register with a JSON body: the validation of the body as UserCreate,
\* then register_user
post_register(r, body) ==
    IF RequiredUserCreateFields \subseteq body.fields
    THEN register_user(r, UserCreate(body))
    ELSE /\ Free(r)
         /\ req' = [req EXCEPT ![r] =
                      [IdleRequest EXCEPT !.op = "register", !.pc = "done",
                                          !.user = [username |-> body.values.username,
                                                    fields_set |-> body.fields],
                                          !.failure = "RequestValidationError",
                                          !.response = unprocessable_entity]]
         /\ UNCHANGED <<users, nextId, now, issued, db_manager, issued_to>>

\* db.add + flush inside begin_nested: the INSERT.  It waits while a row of
\* an open transaction holds one of its unique keys; the sequence value is
\* consumed whether or not the INSERT succeeds.
create_user_flush(r) ==
    /\ req[r].op = "register"
    /\ req[r].pc = "flush"
    /\ nextId <= MaxId
    /\ LET row == [req[r].db_user EXCEPT !.id = nextId]
           violated == UniqueViolations(row, users)
       IN  /\ UniqueViolations(row, UncommittedOf(r)) = {}
           /\ IF violated = {}
              THEN req' = [req EXCEPT ![r] =
                             [@ EXCEPT !.pc = "commit", !.db_user = row,
                                       !.response = Ok(row)]]
              ELSE \E c \in violated :
                      req' = [req EXCEPT ![r] =
                                [@ EXCEPT !.pc = "done", !.error_msg = c,
                                          !.response = IntegrityErrorResponse(c)]]
    /\ nextId' = nextId + 1
    /\ UNCHANGED <<users, now, issued, db_manager, issued_to>>

\* get_session: the body finished without raising, session.commit()
get_session_commit(r) ==
    /\ req[r].pc = "commit"
    /\ users' = users \cup {req[r].db_user}
    /\ req' = [req EXCEPT ![r] = [@ EXCEPT !.pc = "done"]]
    /\ UNCHANGED <<nextId, now, issued, db_manager, issued_to>>

\* POST /token.  `issued_to` is history: the tokens the endpoint returned,
\* each with the id of the principal it authenticated.  `failure` is
\* history: the reason authenticate_user had for returning None, or the
\* exception it let through.
login_for_access_token(r, username, password) ==
    /\ Free(r)
    /\ LET arrived == [IdleRequest EXCEPT !.op = "login", !.pc = "done",
                                          !.user = [username |-> username,
                                                    password |-> password]]
       IN  IF authenticate_user_raises(users, username, password)
           THEN /\ req' = [req EXCEPT ![r] =
                             [arrived EXCEPT !.failure = "ValueError",
                                             !.response = InternalServerError]]
                /\ issued' = issued
                /\ issued_to' = issued_to
           ELSE LET user == authenticate_user(users, username, password)
                    access_token ==
                        create_access_token(user.username, user.scopes,
                                            timedelta(ACCESS_TOKEN_EXPIRE_MINUTES),
                                            now)
                IN  IF user = NoRow
                    THEN /\ req' = [req EXCEPT ![r] =
                                      [arrived EXCEPT
                                          !.current_user = user,
                                          !.failure =
                                              IF get_user(users, username) = NoRow
                                              THEN "unknown_username"
                                              ELSE "wrong_password",
                                          !.response =
                                              incorrect_username_or_password]]
                         /\ issued' = issued
                         /\ issued_to' = issued_to
                    ELSE /\ req' = [req EXCEPT ![r] =
                                      [arrived EXCEPT
                                          !.current_user = user,
                                          !.response = Ok(access_token)]]
                         /\ issued' = issued \cup {access_token}
                         /\ issued_to' = issued_to \cup {<<access_token, user.id>>}
    /\ UNCHANGED <<users, nextId, now, db_manager>>

\* GET /users/me/
read_users_me(r, token) ==
    /\ Free(r)
    /\ LET a == Authorize(MeScopes, token, users, now)
       IN  req' = [req EXCEPT ![r] =
                     [IdleRequest EXCEPT !.op = "me", !.pc = "done",
                                         !.token = token,
                                         !.security_scopes = SecurityScopes(MeScopes),
                                         !.current_user = a.user,
                                         !.failure = a.failure,
                                         !.response = IF a.failure = "none"
                                                      THEN Ok(a.user)
                                                      ELSE a.response]]
    /\ UNCHANGED <<users, nextId, now, issued, db_manager, issued_to>>

\* GET /status/
read_system_status(r, token) ==
    /\ Free(r)
    /\ LET a == Authorize(AdminScopes, token, users, now)
       IN  req' = [req EXCEPT ![r] =
                     [IdleRequest EXCEPT !.op = "status", !.pc = "done",
                                         !.token = token,
                                         !.security_scopes = SecurityScopes(AdminScopes),
                                         !.current_user = a.user,
                                         !.failure = a.failure,
                                         !.response = IF a.failure = "none"
                                                      THEN Ok(StatusBody(a.user))
                                                      ELSE a.response]]
    /\ UNCHANGED <<users, nextId, now, issued, db_manager, issued_to>>

\* get_current_user resolved for an endpoint that declares
\* Security(get_current_user, scopes=security_scopes)
current_user_dependency(r, security_scopes, token) ==
    /\ Free(r)
    /\ token.present
    /\ LET a == get_current_user(security_scopes, token, users, now)
       IN  req' = [req EXCEPT ![r] =
                     [IdleRequest EXCEPT !.op = "current_user", !.pc = "done",
                                         !.token = token,
                                         !.security_scopes = security_scopes,
                                         !.current_user = a.user,
                                         !.failure = a.failure,
                                         !.response = IF a.failure = "none"
                                                      THEN Ok(a.user)
                                                      ELSE a.response]]
    /\ UNCHANGED <<users, nextId, now, issued, db_manager, issued_to>>

\* the dependencies of PUT /users/me/update/ and PATCH /users/{user_id}
Authorized(r, op, endpoint_scopes, schema_fields, token, user_id, payload) ==
    /\ Free(r)
    /\ LET a == Authorize(endpoint_scopes, token, users, now)
           arrived == [IdleRequest EXCEPT !.op = op,
                                          !.token = token,
                                          !.security_scopes = SecurityScopes(endpoint_scopes),
                                          !.user_id = user_id,
                                          !.update_data = model_dump(schema_fields, payload),
                                          !.failure = a.failure]
       IN  req' = [req EXCEPT ![r] =
                     IF a.failure = "none"
                     THEN [arrived EXCEPT !.pc = "select", !.current_user = a.user]
                     ELSE [arrived EXCEPT !.pc = "done", !.response = a.response]]
    /\ UNCHANGED <<users, nextId, now, issued, db_manager, issued_to>>

\* PUT /users/me/update/
update_own_user(r, token, payload) ==
    Authorized(r, "update_own", MeScopes, ProfileFields, token, 0, payload)

\* PATCH /users/{user_id}
update_user(r, token, user_id, payload) ==
    Authorized(r, "update_user", AdminScopes, ProfileFields \cup PrivilegedFields,
               token, user_id, payload)

\* a handler that selects the row of the authenticated principal whatever the
\* path says
TargetIdOfCaller(q) == q.current_user.id

\* the id the handler selects
TargetId(q) == IF q.op = "update_own" THEN q.current_user.id ELSE q.user_id

\* async with db.begin(): select(DBUser).where(DBUser.id == ...), the 404, the
\* setattr loop
update_select(r) ==
    /\ req[r].pc = "select"
    /\ LET found == {x \in users : x.id = TargetId(req[r])}
       IN  IF found = {}
           THEN req' = [req EXCEPT ![r] =
                          [@ EXCEPT !.pc = "done",
                                    !.response = IF req[r].op = "update_own"
                                                 THEN user_not_found
                                                 ELSE user_id_not_found]]
           ELSE \E user \in found :
                   req' = [req EXCEPT ![r] =
                             [@ EXCEPT !.pc = "update",
                                       !.db_user = setattrs(user, req[r].update_data),
                                       !.update_data =
                                           Payload(ChangedFields(user, req[r].update_data),
                                                   req[r].update_data.values)]]
    /\ UNCHANGED <<users, nextId, now, issued, db_manager, issued_to>>

\* leaving `async with db.begin()`: the flush emits the UPDATE of the changed
\* columns and the transaction commits.  The UPDATE waits while a row of an
\* open transaction holds one of its unique keys; an IntegrityError is caught
\* by no handler.
update_commit(r) ==
    /\ req[r].pc = "update"
    /\ LET current == CHOOSE x \in users : x.id = req[r].db_user.id
           row == setattrs(current, req[r].update_data)
       IN  IF req[r].update_data.fields = {}
           THEN /\ req' = [req EXCEPT ![r] =
                             [@ EXCEPT !.pc = "done", !.response = Ok(req[r].db_user)]]
                /\ users' = users
           ELSE /\ UniqueViolations(row, UncommittedOf(r)) = {}
                /\ IF UniqueViolations(row, users) # {}
                   THEN /\ req' = [req EXCEPT ![r] =
                                     [@ EXCEPT !.pc = "done",
                                               !.response = InternalServerError]]
                        /\ users' = users
                   ELSE /\ req' = [req EXCEPT ![r] =
                                     [@ EXCEPT !.pc = "done",
                                               !.response = Ok(IF req[r].op = "update_own"
                                                               THEN req[r].db_user
                                                               ELSE row)]]
                        /\ users' = (users \ {current}) \cup {row}
    /\ UNCHANGED <<nextId, now, issued, db_manager, issued_to>>

\* create_access_token applied by a caller with its own expires_delta.  The
\* slot keeps the arguments and the instant of the call.
issue_access_token(r, sub, scopes, expires_delta) ==
    /\ Free(r)
    /\ LET access_token == create_access_token(sub, scopes, expires_delta, now)
       IN  /\ req' = [req EXCEPT ![r] =
                        [IdleRequest EXCEPT !.op = "issue", !.pc = "done",
                                            !.user = [sub |-> sub, scopes |-> scopes,
                                                      expires_delta |-> expires_delta,
                                                      time |-> now],
                                            !.token = access_token,
                                            !.response = Ok(access_token)]]
           /\ issued' = issued \cup {access_token}
    /\ UNCHANGED <<users, nextId, now, db_manager, issued_to>>

\* time passes: one token lifetime
Tick ==
    /\ now < MaxTime * ACCESS_TOKEN_EXPIRE_MINUTES
    /\ now' = now + ACCESS_TOKEN_EXPIRE_MINUTES
    /\ UNCHANGED <<users, nextId, req, issued, db_manager, issued_to>>

(***************************************************************************)
(* Specification of the store operations: registrations and updates.       *)
(***************************************************************************)
\* the token the login endpoint hands a principal at instant 0
IssuedToken(sub, scopes) ==
    create_access_token(sub, scopes, timedelta(ACCESS_TOKEN_EXPIRE_MINUTES), 0)

UserCreateInputs ==
    {[username |-> u, email |-> e, full_name |-> NULL, disabled |-> FALSE,
      scopes |-> S_admin_user, password |-> p] :
        u \in Usernames, e \in Emails \cup {NULL}, p \in Passwords}

StoreTokens == {IssuedToken("alice", S_admin_user)}

StorePayloads ==
    {Payload({"username"}, [NoValues EXCEPT !.username = "bob"]),
     Payload({"email"}, [NoValues EXCEPT !.email = "a@example.com"])}

Next ==
    \/ \E r \in Slots, user \in UserCreateInputs : register_user(r, user)
    \/ \E r \in Slots : create_user_flush(r)
    \/ \E r \in Slots : get_session_commit(r)
    \/ \E r \in Slots, token \in StoreTokens, payload \in StorePayloads :
          update_own_user(r, token, payload)
    \/ \E r \in Slots, token \in StoreTokens, user_id \in 1..MaxId,
          payload \in StorePayloads :
          update_user(r, token, user_id, payload)
    \/ \E r \in Slots : update_select(r)
    \/ \E r \in Slots : update_commit(r)

Spec == Init /\ [][Next]_vars

(***************************************************************************)
(* Properties of registration and of the store.                            *)
(***************************************************************************)
Registered(r) == req[r].op = "register" /\ req[r].pc = "done"

\* the registration got past the pre-flight check
PassedPreflight(r) ==
    req[r].op = "register" /\ req[r].pc \in {"flush", "commit", "done"}
    /\ (req[r].pc = "done" =>
            req[r].error_msg # NoError \/ req[r].response.status = 200)

\* both were past the pre-flight check before either inserted
Raced(r1, r2) == r1 \in req[r2].rivals \/ r2 \in req[r1].rivals

\* C1: of two registrations with the same username that both pass the
\* pre-flight check before either inserts, exactly one succeeds, the other
\* gets the 409 naming the username, and the store holds exactly one row
\* with that username.
C1_SameUsernameRace ==
    \A r1, r2 \in Slots :
        ( /\ r1 # r2
          /\ Registered(r1) /\ Registered(r2)
          /\ PassedPreflight(r1) /\ PassedPreflight(r2)
          /\ Raced(r1, r2)
          /\ req[r1].user.username = req[r2].user.username )
        => /\ \E w, l \in {r1, r2} :
                 /\ w # l
                 /\ req[w].response.status = 200
                 /\ req[l].response = UsernameConflict
           /\ Cardinality({x \in users : x.username = req[r1].user.username}) = 1

\* C2: of two registrations with different usernames and the same non-null
\* e-mail that both pass the pre-flight check before either inserts, the one
\* whose INSERT the store rejects for the e-mail uniqueness constraint gets
\* the 409 naming the e-mail, never a 500.
C2_EmailRaceIsConflict ==
    \A r1, r2 \in Slots :
        ( /\ r1 # r2
          /\ Registered(r1) /\ Registered(r2)
          /\ Raced(r1, r2)
          /\ req[r1].user.username # req[r2].user.username
          /\ req[r1].user.email # NULL
          /\ req[r1].user.email = req[r2].user.email
          /\ req[r2].error_msg = EmailConstraint )
        => /\ req[r2].response = EmailConflict
           /\ req[r2].response.status # 500

\* C3: no two committed rows share an id, a username or a non-null e-mail,
\* and every committed row carries the id the store assigned.
C3_CommittedRowsUnique ==
    \A x, y \in users :
        /\ x.id >= 1
        /\ x.username # NULL
        /\ x # y =>
              /\ x.id # y.id
              /\ x.username # y.username
              /\ x.email # NULL => x.email # y.email

\* C3 witness: two principals are committed by registrations of which one is
\* still on record, and the store has turned down an update over a unique key.
C3_Witness ==
    /\ Cardinality(users) = 2
    /\ \E r1, r2 \in Slots :
          /\ Registered(r1) /\ req[r1].response.status = 200
          /\ req[r2].op \in {"update_own", "update_user"}
          /\ req[r2].response = InternalServerError

\* C4: a registration without an e-mail is never turned down as an e-mail
\* conflict.
C4_NullEmailNeverConflicts ==
    \A r \in Slots :
        (Registered(r) /\ req[r].user.email = NULL)
        => req[r].response # EmailConflict

\* the step in which request r runs the pre-flight check of a registration
PreflightStep(r) ==
    /\ Answered(r)
    /\ req'[r] # req[r]
    /\ req'[r].op = "register"

\* C5: a registration whose username is free and whose e-mail is the e-mail
\* of a committed principal is answered with the 409 naming the e-mail, and
\* leaves the committed rows as they are.
C5_DuplicateEmail ==
    [][\A r \in Slots :
          ( /\ PreflightStep(r)
            /\ req'[r].user.email # NULL
            /\ \E x \in users : x.email = req'[r].user.email
            /\ \A x \in users : x.username # req'[r].user.username )
          => /\ req'[r].pc = "done"
             /\ req'[r].response = EmailConflict
             /\ users' = users]_vars

\* C5 witness: a registration was answered with the e-mail conflict while a
\* principal with another username holds that e-mail and nobody holds the
\* username.
C5_Witness ==
    \E r \in Slots :
        /\ Registered(r)
        /\ req[r].response = EmailConflict
        /\ req[r].user.email # NULL
        /\ \E x \in users : x.email = req[r].user.email
        /\ \A x \in users : x.username # req[r].user.username

(***************************************************************************)
(* Specification of the authorizer: principals register and log in, time   *)
(* passes, an administrator disables a principal, a principal renames      *)
(* itself, and requests present the tokens that were issued as well as     *)
(* tokens the service never issued.                                        *)
(***************************************************************************)
AuthCreateInputs ==
    {[username |-> "alice", email |-> NULL, full_name |-> NULL, disabled |-> FALSE,
      scopes |-> sc, password |-> p] :
        sc \in {S_admin_user, S_superadmin_user, S_empty},
        p \in Passwords}

LoginPasswords == Passwords \cup {"wrong"}

\* tokens the login endpoint did not issue
MalformedToken == Token(FALSE, ALGORITHM, FALSE, TRUE, NoSub, S_empty, 0)
BadSignatureToken ==
    Token(TRUE, ALGORITHM, FALSE, TRUE, "alice", S_admin_user,
          (MaxTime + 1) * ACCESS_TOKEN_EXPIRE_MINUTES)
WrongAlgorithmToken ==
    Token(TRUE, "none", FALSE, TRUE, "alice", S_admin_user,
          (MaxTime + 1) * ACCESS_TOKEN_EXPIRE_MINUTES)
\* signed with the service's key by another caller of create_access_token
NoSubToken ==
    Token(TRUE, ALGORITHM, TRUE, TRUE, NoSub, S_admin_user,
          (MaxTime + 1) * ACCESS_TOKEN_EXPIRE_MINUTES)
UntypedToken ==
    Token(TRUE, ALGORITHM, TRUE, FALSE, "alice", S_empty,
          (MaxTime + 1) * ACCESS_TOKEN_EXPIRE_MINUTES)

OtherTokens ==
    {MalformedToken, BadSignatureToken, WrongAlgorithmToken, NoSubToken, UntypedToken}

\* what a request can carry in its Authorization header
PresentedTokens == issued \cup OtherTokens \cup {NoToken}

\* the required scopes get_current_user is applied to on its own
DirectScopes == {<<S_admin>>, <<S_user>>}

RenamePayload == Payload({"username"}, [NoValues EXCEPT !.username = "bob"])

NextAuth ==
    \/ \E r \in Slots, user \in AuthCreateInputs : register_user(r, user)
    \/ \E r \in Slots : create_user_flush(r)
    \/ \E r \in Slots : get_session_commit(r)
    \/ \E r \in Slots, password \in LoginPasswords :
          login_for_access_token(r, "alice", password)
    \/ \E r \in Slots, token \in PresentedTokens : read_users_me(r, token)
    \/ \E r \in Slots, token \in PresentedTokens : read_system_status(r, token)
    \/ \E r \in Slots, security_scopes \in DirectScopes, token \in issued :
          current_user_dependency(r, security_scopes, token)
    \/ \E r \in Slots, token \in issued : update_own_user(r, token, RenamePayload)
    \/ \E r \in Slots : update_select(r)
    \/ \E r \in Slots : update_commit(r)
    \/ Tick

SpecAuth == Init /\ [][NextAuth]_vars

(***************************************************************************)
(* Properties of the authorizer.                                           *)
(***************************************************************************)
\* Python `s.split()`: the set of the space-separated words of s
RECURSIVE ScopeWords(_)
ScopeWords(s) ==
    IF s = S_empty THEN {}
    ELSE LET spaces == {i \in 1..Len(s) : s[i] = " "}
             stop == IF spaces = {} THEN Len(s) + 1
                     ELSE CHOOSE i \in spaces : \A j \in spaces : i <= j
             word == SubSeq(s, 1, stop - 1)
         IN  (IF word = S_empty THEN {} ELSE {word})
                 \cup ScopeWords(SubSeq(s, stop + 1, Len(s)))

\* the requests that went through get_current_user
AuthOps == {"me", "status", "current_user", "update_own", "update_user"}
\* ... and through get_current_active_user
ActiveOps == {"me", "status", "update_own", "update_user"}

\* the token was accepted and its subject resolved to a principal
Authenticated(r) ==
    req[r].op \in AuthOps /\ req[r].failure \in {"none", "inactive", "scope"}

PassedScopeCheck(r) ==
    req[r].op \in AuthOps /\ req[r].failure \in {"none", "inactive"}

\* the scopes the endpoint requires, as the words of its scope string
RequiredScopes(r) == ScopeWords(str_join(req[r].security_scopes))

\* C6: a request passes the scope check only if every scope its endpoint
\* requires is equal to one of the space-separated words of the token's scope
\* string; a word that merely contains the required scope does not count.
C6_ExactScopeMatch ==
    \A r \in Slots :
        PassedScopeCheck(r)
        => RequiredScopes(r) \subseteq ScopeWords(req[r].token.scopes)

\* C7: for an accepted token whose subject is an existing principal, the
\* authorizer succeeds if and only if every required scope is in the token's
\* scope set, and on success it returns the principal named by the sub claim.
C7_SucceedsIffScopesContained ==
    \A r \in Slots :
        Authenticated(r)
        => /\ (req[r].failure # "scope")
                  <=> (RequiredScopes(r) \subseteq ScopeWords(req[r].token.scopes))
           /\ req[r].failure = "none"
                  => req[r].current_user.username = req[r].token.sub

\* C8 as stated: a missing required scope is answered with a Forbidden (403),
\* a status other than the one of the Unauthenticated answers.
C8_MissingScopeIsForbidden ==
    \A r \in Slots :
        (req[r].op \in AuthOps /\ req[r].failure = "scope")
        => /\ req[r].response.status = 403
           /\ req[r].response.status
                  # credentials_exception(req[r].security_scopes).status
           /\ req[r].response.status # not_authenticated.status

\* C8 amended: a missing required scope is answered with the status (401) and
\* the challenge header of the Unauthenticated answers; the answer differs
\* from them in its detail, "Not enough permissions", only.
C8_MissingScopeIs401NotEnoughPermissions ==
    \A r \in Slots :
        (req[r].op \in AuthOps /\ req[r].failure = "scope")
        => LET unauthenticated == credentials_exception(req[r].security_scopes)
           IN  /\ req[r].response.status = 401
               /\ req[r].response.status = unauthenticated.status
               /\ req[r].response.headers = unauthenticated.headers
               /\ req[r].response.detail = "Not enough permissions"
               /\ req[r].response.detail # unauthenticated.detail
               /\ req[r].response.detail # not_authenticated.detail

\* C8 witness: one endpoint has turned down one request for a missing scope
\* and another for an unknown subject.
C8_Witness ==
    \E r1, r2 \in Slots :
        /\ req[r1].op \in AuthOps /\ req[r1].failure = "scope"
        /\ req[r2].op = req[r1].op /\ req[r2].failure = "unknown_user"

\* the checks of get_current_user that C10 lists
CredentialFailures ==
    {"DecodeError", "InvalidSignatureError", "ExpiredSignatureError",
     "InvalidAlgorithmError", "no_sub", "unknown_user"}

\* C10: two requests to endpoints with the same required scopes that fail any
\* of the token checks (malformed, bad signature, expired, wrong algorithm, no
\* sub claim, unknown subject) get the same status, detail and headers.
C10_TokenFailuresIndistinguishable ==
    \A r1, r2 \in Slots :
        ( /\ req[r1].op \in AuthOps /\ req[r2].op \in AuthOps
          /\ req[r1].security_scopes = req[r2].security_scopes
          /\ req[r1].failure \in CredentialFailures
          /\ req[r2].failure \in CredentialFailures )
        => req[r1].response = req[r2].response

\* C10 witness: the same endpoint has turned down an expired token and a token
\* whose subject no longer exists.
C10_Witness ==
    \E r1, r2 \in Slots :
        /\ req[r1].op = "me" /\ req[r2].op = "me"
        /\ req[r1].failure = "ExpiredSignatureError"
        /\ req[r2].failure = "unknown_user"
        /\ req[r1].response = req[r2].response

(***************************************************************************)
(* Specification of the active check: an administrator and a plain         *)
(* principal register and log in, the administrator disables principals,   *)
(* time passes.                                                            *)
(***************************************************************************)
ActiveCreateInputs ==
    {[username |-> "alice", email |-> NULL, full_name |-> NULL, disabled |-> FALSE,
      scopes |-> S_admin_user, password |-> "Secret123!"],
     [username |-> "bob", email |-> NULL, full_name |-> NULL, disabled |-> FALSE,
      scopes |-> S_empty, password |-> "Secret123!"]}

DisablePayload == Payload({"disabled"}, [NoValues EXCEPT !.disabled = TRUE])

NextActive ==
    \/ \E r \in Slots, user \in ActiveCreateInputs : register_user(r, user)
    \/ \E r \in Slots : create_user_flush(r)
    \/ \E r \in Slots : get_session_commit(r)
    \/ \E r \in Slots, username \in Usernames, password \in Passwords :
          login_for_access_token(r, username, password)
    \/ \E r \in Slots, token \in issued \cup {NoToken} : read_users_me(r, token)
    \/ \E r \in Slots, token \in issued, user_id \in 1..MaxId :
          update_user(r, token, user_id, DisablePayload)
    \/ \E r \in Slots : update_select(r)
    \/ \E r \in Slots : update_commit(r)
    \/ Tick

SpecActive == Init /\ [][NextActive]_vars

\* the step in which request r arrives at an endpoint behind the active check
ActiveCheckStep(r) ==
    /\ Answered(r)
    /\ req'[r] # req[r]
    /\ req'[r].op \in ActiveOps

\* the token of request q is accepted at this instant and names a principal
ValidToken(q) ==
    /\ q.token.present
    /\ jwt_decode(q.token, now) = "ok"
    /\ q.token.sub # NoSub
    /\ q.token.typed
    /\ \E x \in users : x.username = q.token.sub

\* the token of request q carries every scope its endpoint requires, as the
\* authorizer reads scopes
SufficientlyScoped(q) ==
    \A i \in 1..Len(q.security_scopes) :
        str_contains(q.security_scopes[i], q.token.scopes)

\* C9: a request through the active check whose token is valid and
\* sufficiently scoped and whose principal is disabled is answered 400
\* "Inactive user", whenever the token was issued; and only such requests get
\* that answer.
C9_DisabledPrincipalIsInactive ==
    [][\A r \in Slots :
          ActiveCheckStep(r)
          => LET q == req'[r]
                 disabled == \E x \in users : x.username = q.token.sub /\ x.disabled
             IN  /\ (ValidToken(q) /\ SufficientlyScoped(q) /\ disabled)
                        => (q.pc = "done" /\ q.response = inactive_user)
                 /\ q.response = inactive_user
                        => (ValidToken(q) /\ SufficientlyScoped(q) /\ disabled)]_vars

\* C9 witness: one token, issued by the login endpoint, was answered 200 at
\* GET /users/me/ before its principal was disabled and 400 "Inactive user"
\* afterwards.
C9_Witness ==
    \E r1, r2 \in Slots :
        /\ req[r1].op = "me" /\ req[r2].op = "me"
        /\ req[r1].token \in issued
        /\ req[r1].token = req[r2].token
        /\ req[r1].response.status = 200
        /\ req[r2].response = inactive_user

(***************************************************************************)
(* Specification of the login flow: principals register, and clients log   *)
(* in with known and unknown usernames, right and wrong passwords.         *)
(***************************************************************************)
LoginCreateInputs ==
    {[username |-> u, email |-> NULL, full_name |-> NULL, disabled |-> FALSE,
      scopes |-> S_admin_user, password |-> "Secret123!"] : u \in Usernames}

\* the usernames of the login form: the ones that register, and one whose row
\* only a direct writer of the table creates
LoginUsernames == Usernames \cup {"carol"}

NextLogin ==
    \/ \E r \in Slots, user \in LoginCreateInputs : register_user(r, user)
    \/ \E r \in Slots : create_user_flush(r)
    \/ \E r \in Slots : get_session_commit(r)
    \/ \E r \in Slots, username \in LoginUsernames, password \in LoginPasswords :
          login_for_access_token(r, username, password)

SpecLogin == Init /\ [][NextLogin]_vars

\* C11: a login with an unknown username and a login with a known username
\* and a wrong password both get None from authenticate_user and the same
\* response; a login is answered with a token only if its username names a
\* principal and its password verifies against that principal's digest.
C11_LoginFailuresIndistinguishable ==
    /\ \A r1, r2 \in Slots :
          ( /\ req[r1].op = "login" /\ req[r1].failure = "unknown_username"
            /\ req[r2].op = "login" /\ req[r2].failure = "wrong_password" )
          => /\ req[r1].current_user = NoRow
             /\ req[r2].current_user = NoRow
             /\ req[r1].response = req[r2].response
    /\ \A r \in Slots :
          (req[r].op = "login" /\ req[r].response.status = 200)
          => /\ req[r].current_user.username = req[r].user.username
             /\ verify_password(req[r].user.password,
                                req[r].current_user.hashed_password)
             /\ req[r].response.body.sub = req[r].user.username

\* C11 witness: a login with an unknown username and a login with a wrong
\* password for a registered principal have both been answered.
C11_Witness ==
    \E r1, r2 \in Slots :
        /\ req[r1].op = "login" /\ req[r1].failure = "unknown_username"
        /\ req[r2].op = "login" /\ req[r2].failure = "wrong_password"
        /\ \E x \in users : x.username = req[r2].user.username

(***************************************************************************)
(* Specification of the login flow over a table that holds a row a direct  *)
(* writer created (as tests/test_user_model.py does), with a digest that   *)
(* is empty, is not a bcrypt digest, or is one.                            *)
(***************************************************************************)
StoredDigests ==
    {<< >>, <<"a_very_secure_hash">>, get_password_hash("Secret123!", "salt1")}

DirectRow(hashed_password) ==
    [id |-> 1, username |-> "carol", email |-> "carol@example.com",
     hashed_password |-> hashed_password, full_name |-> NULL,
     disabled |-> FALSE, scopes |-> S_empty]

InitDigest ==
    /\ users \in {{DirectRow(d)} : d \in StoredDigests}
    /\ nextId = 2
    /\ req = [r \in Slots |-> IdleRequest]
    /\ now = 0
    /\ issued = {}
    /\ db_manager = DatabaseManager
    /\ issued_to = {}

SpecDigest == InitDigest /\ [][NextLogin]_vars

\* C12: verify_password never raises, so no login ends in an error: a login
\* for a principal whose stored digest is empty or malformed is answered like
\* any failed login.
C12_VerifyNeverRaises ==
    \A r \in Slots :
        req[r].op = "login"
        => /\ req[r].failure # "ValueError"
           /\ req[r].response.status # 500
           /\ (\E x \in users : /\ x.username = req[r].user.username
                                /\ ~bcrypt_digest(x.hashed_password))
                  => req[r].response = incorrect_username_or_password

(***************************************************************************)
(* Specification of the token service: tokens are issued with and without  *)
(* an expires_delta, time passes, and the authorizer decodes them.         *)
(***************************************************************************)
TokenCreateInputs ==
    {[username |-> "alice", email |-> NULL, full_name |-> NULL, disabled |-> FALSE,
      scopes |-> S_admin_user, password |-> "Secret123!"]}

ExpiresDeltas ==
    {NoDelta, timedelta(0 - 1), timedelta(0), timedelta(ACCESS_TOKEN_EXPIRE_MINUTES)}

NextToken ==
    \/ \E r \in Slots, user \in TokenCreateInputs : register_user(r, user)
    \/ \E r \in Slots : create_user_flush(r)
    \/ \E r \in Slots : get_session_commit(r)
    \/ \E r \in Slots, expires_delta \in ExpiresDeltas :
          issue_access_token(r, "alice", S_admin_user, expires_delta)
    \/ \E r \in Slots, token \in issued :
          current_user_dependency(r, <<S_admin>>, token)
    \/ Tick

SpecToken == Init /\ [][NextToken]_vars

\* the step in which request r arrives at get_current_user
DecodeStep(r) ==
    /\ Answered(r)
    /\ req'[r] # req[r]
    /\ req'[r].op \in AuthOps
    /\ req'[r].token.present

\* C13: the clock never goes back, and every request that presents an issued
\* token at or after the instant of its exp claim is turned down with the
\* credentials exception for an expired signature -- a token issued with a
\* negative expires_delta at once; so a token turned down as expired is
\* never accepted later.
C13_ExpiredTokensStayRejected ==
    [][/\ now' >= now
       /\ \A r \in Slots :
             (DecodeStep(r) /\ req'[r].token \in issued)
             => LET q == req'[r]
                IN  /\ q.token.exp <= now
                       => /\ q.failure = "ExpiredSignatureError"
                          /\ q.response = credentials_exception(q.security_scopes)
                          /\ q.current_user = NoRow
                    /\ q.failure = "ExpiredSignatureError" => q.token.exp <= now]_vars

\* C13 witness: a token issued with a negative expires_delta has been turned
\* down as expired, and so has a token at the very instant of its exp claim.
C13_Witness ==
    /\ now = ACCESS_TOKEN_EXPIRE_MINUTES
    /\ \E r1, r2 \in Slots :
          /\ req[r1].op = "current_user"
          /\ req[r1].failure = "ExpiredSignatureError"
          /\ req[r1].token.exp = now - 1
          /\ req[r2].op = "current_user"
          /\ req[r2].failure = "ExpiredSignatureError"
          /\ req[r2].token.exp = now

C15_ExpIsIssueTimePlusTtl ==
    \A r \in Slots :
        req[r].op = "issue"
        => req[r].token.exp =
              IF req[r].user.expires_delta = NoDelta
              THEN req[r].user.time + 15
              ELSE req[r].user.time + req[r].user.expires_delta.minutes

(***************************************************************************)
(* Specification of registration from request bodies that set or leave out *)
(* the optional fields.                                                    *)
(***************************************************************************)
RegisterValues ==
    {[username |-> u, email |-> NULL, full_name |-> NULL, disabled |-> TRUE,
      scopes |-> sc, password |-> "Secret123!"] :
        u \in Usernames, sc \in {S_empty, S_admin_user}}

RegisterFieldSets ==
    {{"username", "password"},
     {"username", "password", "disabled"},
     {"username", "password", "scopes"},
     {"username", "password", "scopes", "disabled"}}

RegisterBodies ==
    {Payload(fields, values) : fields \in RegisterFieldSets, values \in RegisterValues}

NextRegister ==
    \/ \E r \in Slots, body \in RegisterBodies : post_register(r, body)
    \/ \E r \in Slots : create_user_flush(r)
    \/ \E r \in Slots : get_session_commit(r)

SpecRegister == Init /\ [][NextRegister]_vars

\* C16: a registration whose body gives a username and a password and leaves
\* scopes and disabled out, and whose username is free, succeeds; the
\* principal it returns and persists has scopes "user" and is not disabled.
C16_DefaultScopesAndDisabled ==
    \A r \in Slots :
        ( /\ Registered(r)
          /\ req[r].user.fields_set = {"username", "password"}
          /\ req[r].response.status # 409 )
        => /\ req[r].response.status = 200
           /\ req[r].response.body.scopes = S_user
           /\ req[r].response.body.disabled = FALSE
           /\ req[r].response.body \in users

(***************************************************************************)
(* Properties of the partial updates, checked under Spec.                  *)
(***************************************************************************)
UpdateOps == {"update_own", "update_user"}

\* the step in which slot r leaves `async with db.begin()`
UpdateCommitStep(r) ==
    /\ req[r].op \in UpdateOps
    /\ req[r].pc = "update"
    /\ req'[r].pc = "done"

\* any other step of an update request
UpdateOtherStep(r) ==
    /\ req'[r] # req[r]
    /\ req'[r].op \in UpdateOps
    /\ ~UpdateCommitStep(r)

\* the row with this id
RowOf(table, id) == CHOOSE x \in table : x.id = id

C18_IdAndUsernameNeverChange ==
    [][\A x \in users :
          \E y \in users' : y.id = x.id /\ y.username = x.username]_vars

\* the principal id an update request names: the path parameter, or the id
\* of the authenticated principal
RequestedId(q) == IF q.op = "update_user" THEN q.user_id ELSE q.current_user.id

\* the step in which slot r runs its SELECT
UpdateSelectStep(r) ==
    /\ req[r].op \in UpdateOps
    /\ req[r].pc = "select"
    /\ req'[r] # req[r]

SessionRow(id) ==
    [id |-> id, username |-> IF id = 1 THEN "alice" ELSE "bob", email |-> NULL,
     hashed_password |-> get_password_hash("Secret123!", "salt1"),
     full_name |-> NULL, disabled |-> FALSE, scopes |-> S_admin_user]

\* how the body of a scope ends: it returns, or an exception is thrown into
\* the generator at the yield; a cancellation is no subclass of Exception
BodyOutcomes == {"returned", "Exception", "BaseException"}

\* session = self.sessionmaker(); yield session
get_session_yield(r) ==
    /\ Free(r)
    /\ req' = [req EXCEPT ![r] =
                 [IdleRequest EXCEPT !.op = "session", !.pc = "body",
                                     !.session = [NoSession EXCEPT !.body = "running"]]]
    /\ UNCHANGED <<users, nextId, now, issued, db_manager, issued_to>>

\* the body runs a statement on the session: a SELECT, or the flush of a new
\* row.  The first statement begins the transaction.
body_execute(r, write) ==
    /\ req[r].op = "session"
    /\ req[r].pc = "body"
    /\ IF write
       THEN /\ nextId <= MaxId
            /\ req' = [req EXCEPT ![r].session =
                         [@ EXCEPT !.in_transaction = TRUE,
                                   !.new = @ \cup {SessionRow(nextId)},
                                   !.in_scope = @ \cup {SessionRow(nextId)}]]
            /\ nextId' = nextId + 1
       ELSE /\ ~req[r].session.in_transaction
            /\ req' = [req EXCEPT ![r].session = [@ EXCEPT !.in_transaction = TRUE]]
            /\ nextId' = nextId
    /\ UNCHANGED <<users, now, issued, db_manager, issued_to>>

\* the body leaves a block `async with db.begin()`: the block's transaction
\* commits
body_begin_exit(r) ==
    /\ req[r].op = "session"
    /\ req[r].pc = "body"
    /\ req[r].session.in_transaction
    /\ users' = users \cup req[r].session.new
    /\ req' = [req EXCEPT ![r].session =
                 [@ EXCEPT !.in_transaction = FALSE,
                           !.new = {},
                           !.by_body = @ \cup req[r].session.new]]
    /\ UNCHANGED <<nextId, now, issued, db_manager, issued_to>>

\* the body ends
body_end(r, outcome) ==
    /\ req[r].op = "session"
    /\ req[r].pc = "body"
    /\ req' = [req EXCEPT ![r] =
                 [@ EXCEPT !.pc = "exit", !.session = [@ EXCEPT !.body = outcome]]]
    /\ UNCHANGED <<users, nextId, now, issued, db_manager, issued_to>>

\* an except clause without the rollback
rollback_never(session, exc) == FALSE

\* except Exception: if session.in_transaction(): await session.rollback()
rollback_attempted(session, exc) == exc = "Exception" /\ session.in_transaction

\* an exit in which the last exception raised is the one that propagates
leaving_exception_last(e, rollback_error, close_error) ==
    IF close_error THEN "close"
    ELSE IF rollback_error THEN "rollback"
    ELSE e

\* the exception that leaves get_session: `except Exception as rollback_error`
\* and `except Exception as close_error` log theirs and fall through, and the
\* bare `raise` re-raises e
leaving_exception(e, rollback_error, close_error) == e

\* get_session after the yield: session.commit() when the body returned, the
\* except clause, the finally clause.  commit_ok, rollback_ok and close_ok say
\* whether the call returns or raises; after a commit that raised the session
\* may or may not still be in a transaction.
get_session_exit(r, commit_ok, in_transaction_after, rollback_ok, close_ok) ==
    /\ req[r].op = "session"
    /\ req[r].pc = "exit"
    /\ LET s == req[r].session
           commits == s.body = "returned"
           \* a commit with nothing to send has nothing to fail on
           committed == commits /\ (commit_ok \/ ~s.in_transaction)
           exc == IF commits
                  THEN IF committed THEN "none" ELSE "Exception"
                  ELSE s.body
           after_try == IF committed
                        THEN [s EXCEPT !.in_transaction = FALSE, !.new = {}]
                        ELSE IF commits
                             THEN [s EXCEPT !.in_transaction = in_transaction_after]
                             ELSE s
           e == IF exc = "none" THEN "none" ELSE IF commits THEN "commit" ELSE "body"
           rollback == rollback_attempted(after_try, exc)
           after_except ==
               IF rollback /\ rollback_ok
               THEN [after_try EXCEPT !.in_transaction = FALSE, !.new = {}]
               ELSE after_try
       IN  /\ users' = IF committed THEN users \cup s.new ELSE users
           /\ req' = [req EXCEPT ![r] =
                        [@ EXCEPT
                           !.pc = "done",
                           !.failure = exc,
                           !.session =
                              [after_except EXCEPT
                                 !.exc = exc,
                                 !.in_transaction = FALSE,
                                 !.new = {},
                                 !.caught_in_transaction =
                                     exc = "Exception" /\ after_try.in_transaction,
                                 !.commit_calls = IF commits THEN 1 ELSE 0,
                                 !.rollback_calls = IF rollback THEN 1 ELSE 0,
                                 !.rollback_failed = rollback /\ ~rollback_ok,
                                 !.close_calls = 1,
                                 !.close_failed = ~close_ok,
                                 !.origin = e,
                                 !.leaves = leaving_exception(e, rollback /\ ~rollback_ok,
                                                              ~close_ok)]]]
    /\ UNCHANGED <<nextId, now, issued, db_manager, issued_to>>

NextSession ==
    \/ \E r \in Slots : get_session_yield(r)
    \/ \E r \in Slots, write \in BOOLEAN : body_execute(r, write)
    \/ \E r \in Slots : body_begin_exit(r)
    \/ \E r \in Slots, outcome \in BodyOutcomes : body_end(r, outcome)
    \/ \E r \in Slots, commit_ok \in BOOLEAN, in_transaction_after \in BOOLEAN,
          rollback_ok \in BOOLEAN, close_ok \in BOOLEAN :
          get_session_exit(r, commit_ok, in_transaction_after, rollback_ok, close_ok)

SpecSession == Init /\ [][NextSession]_vars

\* a scope that has been left
Left(r) == req[r].op = "session" /\ req[r].pc = "done"

\* the body or the commit raised
Raised(r) == req[r].session.exc # "none"

FlowBodies ==
    {body \in RegisterBodies :
        body.values.username = "alice" /\ "disabled" \notin body.fields}

NextFlow ==
    \/ \E r \in Slots, body \in FlowBodies : post_register(r, body)
    \/ \E r \in Slots : create_user_flush(r)
    \/ \E r \in Slots : get_session_commit(r)
    \/ \E r \in Slots, password \in Passwords :
          login_for_access_token(r, "alice", password)
    \/ \E r \in Slots, token \in issued : read_users_me(r, token)

SpecFlow == Init /\ [][NextFlow]_vars

\* C22: a principal that holds the default scopes "user" and reads its own
\* profile with the token its login returned is authorized, and the answer
\* carries its username.
C22_DefaultPrincipalReadsOwnProfile ==
    \A r \in Slots :
        ( /\ req[r].op = "me"
          /\ req[r].pc = "done"
          /\ req[r].token \in issued
          /\ \E x \in users : /\ x.username = req[r].token.sub
                              /\ x.scopes = S_user
                              /\ ~x.disabled
                              /\ req[r].token.scopes = x.scopes )
        => /\ req[r].response.status = 200
           /\ req[r].response.body.username = req[r].token.sub

(***************************************************************************)
(* Specification of storage failures: statements of create_user and of      *)
(* get_user that raise.                                                    *)
(***************************************************************************)
\* exceptions of the storage layer other than a unique violation: the class
\* and str(e)
StorageErrors ==
    {[class |-> "OperationalError", text |-> "connection refused"],
     [class |-> "IntegrityError", text |-> "null value in column"]}

StorageErrorClasses == {e.class : e \in StorageErrors}

\* get_user, except SQLAlchemyError as e: detail=f"Database error: {e}"
get_user_database_error(e) ==
    HTTPException(500, "Database error: " \o e.text, << >>)

\* POST /register whose pre-flight SELECT raises: create_user catches nothing
\* there
register_user_storage_error(r, user, e) ==
    /\ Free(r)
    /\ e.class # "IntegrityError"
    /\ req' = [req EXCEPT ![r] =
                 [IdleRequest EXCEPT !.op = "register", !.pc = "done",
                                     !.user = user,
                                     !.failure = e.class,
                                     !.error_msg = e.text,
                                     !.response = InternalServerError]]
    /\ UNCHANGED <<users, nextId, now, issued, db_manager, issued_to>>

\* the flush inside begin_nested raises something other than a unique
\* violation: an IntegrityError goes through the except clause, any other
\* exception is caught by no handler
create_user_flush_storage_error(r, e) ==
    /\ req[r].op = "register"
    /\ req[r].pc = "flush"
    /\ req' = [req EXCEPT ![r] =
                 [@ EXCEPT !.pc = "done",
                           !.failure = e.class,
                           !.error_msg = e.text,
                           !.response = IF e.class = "IntegrityError"
                                        THEN IntegrityErrorResponse(e.text)
                                        ELSE InternalServerError]]
    /\ UNCHANGED <<users, nextId, now, issued, db_manager, issued_to>>

\* POST /token whose get_user raises
login_storage_error(r, username, password, e) ==
    /\ Free(r)
    /\ req' = [req EXCEPT ![r] =
                 [IdleRequest EXCEPT !.op = "login", !.pc = "done",
                                     !.user = [username |-> username,
                                               password |-> password],
                                     !.failure = e.class,
                                     !.error_msg = e.text,
                                     !.response = get_user_database_error(e)]]
    /\ UNCHANGED <<users, nextId, now, issued, db_manager, issued_to>>

\* GET /users/me/ whose token passes the try block of get_current_user and
\* whose get_user raises
read_users_me_storage_error(r, token, e) ==
    /\ Free(r)
    /\ token.present
    /\ token_data(token, now).failure = "none"
    /\ req' = [req EXCEPT ![r] =
                 [IdleRequest EXCEPT !.op = "me", !.pc = "done",
                                     !.token = token,
                                     !.security_scopes = SecurityScopes(MeScopes),
                                     !.failure = e.class,
                                     !.error_msg = e.text,
                                     !.response = get_user_database_error(e)]]
    /\ UNCHANGED <<users, nextId, now, issued, db_manager, issued_to>>

NextStorage ==
    \/ \E r \in Slots, user \in LoginCreateInputs : register_user(r, user)
    \/ \E r \in Slots : create_user_flush(r)
    \/ \E r \in Slots : get_session_commit(r)
    \/ \E r \in Slots : login_for_access_token(r, "alice", "Secret123!")
    \/ \E r \in Slots, token \in issued : read_users_me(r, token)
    \/ \E r \in Slots, user \in LoginCreateInputs, e \in StorageErrors :
          register_user_storage_error(r, user, e)
    \/ \E r \in Slots, e \in StorageErrors : create_user_flush_storage_error(r, e)
    \/ \E r \in Slots, e \in StorageErrors :
          login_storage_error(r, "alice", "Secret123!", e)
    \/ \E r \in Slots, token \in issued, e \in StorageErrors :
          read_users_me_storage_error(r, token, e)

SpecStorage == Init /\ [][NextStorage]_vars

\* C23: a request that met a storage failure other than a unique violation is
\* answered 500 and the answer does not contain the text of the storage
\* exception.
C23_StorageFailuresAreOpaque ==
    \A r \in Slots :
        ( /\ req[r].pc = "done"
          /\ req[r].failure \in StorageErrorClasses )
        => /\ req[r].response.status = 500
           /\ ~str_contains(req[r].error_msg, req[r].response.detail)

(***************************************************************************)
(* The store manager (app/db/db_manager.py): initialize, get_session up to  *)
(* the session factory, shutdown.  A call is suspended where it awaits the  *)
(* database.                                                               *)
(***************************************************************************)
\* the engines create_async_engine may return
MaxEngines == 3

\* async_sessionmaker(bind=self.engine, ...)
async_sessionmaker(bind) == [bind |-> bind]

\* an initialize without the guard
initialize_never_returns_early(manager) == FALSE

\* if self._initialized: return
initialize_returns_early(manager) == manager.initialized

\* except Exception: self._initialized = False; raise
initialize_except(manager) == [manager EXCEPT !.initialized = FALSE, !.clean = FALSE]

\* a call of the manager has returned or raised
Returned(r, op, failure) ==
    req' = [req EXCEPT ![r] =
              [IdleRequest EXCEPT !.op = op, !.pc = "done", !.failure = failure]]

\* session = self.sessionmaker() of get_session, or its RuntimeError
SessionOrError(manager) ==
    IF manager.sessionmaker = NoSessionmaker THEN "RuntimeError" ELSE "none"

\* initialize(), called directly (op "initialize") or by get_session on a
\* manager that is not initialized (op "get_session"), up to its first await
\* of the database: the guard, _verify_connection_parameters (which awaits
\* nothing), _create_engine, _setup_pool_monitoring and the connect of
\* _verify_schema_compatibility.  A call that returns at the guard keeps in
\* `engine` the engine it found.
initialize(r, op, parameters_ok) ==
    /\ Free(r)
    /\ IF op = "get_session" /\ db_manager.initialized
       THEN /\ Returned(r, op, SessionOrError(db_manager))
            /\ db_manager' = db_manager
       ELSE IF initialize_returns_early(db_manager)
       THEN /\ req' = [req EXCEPT ![r] =
                         [IdleRequest EXCEPT !.op = op, !.pc = "done",
                                             !.engine = db_manager.engine]]
            /\ db_manager' = db_manager
       ELSE IF ~parameters_ok
       THEN /\ Returned(r, op, "Exception")
            /\ db_manager' = initialize_except(db_manager)
       ELSE /\ Cardinality(db_manager.created) < MaxEngines
            /\ LET engine == Cardinality(db_manager.created) + 1
               IN  /\ db_manager' = [db_manager EXCEPT !.engine = engine,
                                                       !.created = @ \cup {engine}]
                   /\ req' = [req EXCEPT ![r] =
                                [IdleRequest EXCEPT !.op = op, !.pc = "schema",
                                                    !.engine = engine]]
    /\ UNCHANGED <<users, nextId, now, issued, issued_to>>

\* _verify_schema_compatibility resumes, then test_connection up to its
\* connect
initialize_schema(r, schema_ok) ==
    /\ req[r].pc = "schema"
    /\ IF schema_ok /\ db_manager.engine # 0
       THEN /\ req' = [req EXCEPT ![r] =
                         [@ EXCEPT !.pc = "test", !.engine = db_manager.engine]]
            /\ db_manager' = db_manager
       ELSE /\ Returned(r, req[r].op, "Exception")
            /\ db_manager' = initialize_except(db_manager)
    /\ UNCHANGED <<users, nextId, now, issued, issued_to>>

\* test_connection resumes, then the session factory and the flag; get_session
\* goes on to self.sessionmaker()
initialize_test(r, test_ok) ==
    /\ req[r].pc = "test"
    /\ IF test_ok
       THEN LET manager == [db_manager EXCEPT
                               !.sessionmaker = async_sessionmaker(db_manager.engine),
                               !.initialized = TRUE]
            IN  /\ db_manager' = manager
                /\ Returned(r, req[r].op,
                            IF req[r].op = "get_session"
                            THEN SessionOrError(manager) ELSE "none")
       ELSE /\ Returned(r, req[r].op, "Exception")
            /\ db_manager' = initialize_except(db_manager)
    /\ UNCHANGED <<users, nextId, now, issued, issued_to>>

\* shutdown() up to `await self.engine.dispose()`
shutdown(r) ==
    /\ Free(r)
    /\ IF db_manager.engine = 0
       THEN /\ Returned(r, "shutdown", "skipped")
            /\ db_manager' = db_manager
       ELSE /\ req' = [req EXCEPT ![r] =
                         [IdleRequest EXCEPT !.op = "shutdown", !.pc = "dispose",
                                             !.engine = db_manager.engine]]
            /\ db_manager' = [db_manager EXCEPT !.clean = FALSE]
    /\ UNCHANGED <<users, nextId, now, issued, issued_to>>

\* dispose() returns and the three attributes are reset, or it raises and the
\* exception is logged
shutdown_dispose(r, dispose_ok) ==
    /\ req[r].pc = "dispose"
    /\ IF dispose_ok
       THEN /\ db_manager' = [db_manager EXCEPT !.engine = 0,
                                               !.sessionmaker = NoSessionmaker,
                                               !.initialized = FALSE,
                                               !.disposed = @ \cup {req[r].engine}]
            /\ Returned(r, "shutdown", "none")
       ELSE /\ db_manager' = db_manager
            /\ Returned(r, "shutdown", "Exception")
    /\ UNCHANGED <<users, nextId, now, issued, issued_to>>

ManagerCalls == {"initialize", "get_session"}

\* no call of the manager is in progress
Quiescent == \A q \in Slots : Answered(q)

\* the manager used by one caller at a time
NextManager ==
    \/ \E r \in Slots, op \in ManagerCalls, parameters_ok \in BOOLEAN :
          Quiescent /\ initialize(r, op, parameters_ok)
    \/ \E r \in Slots, schema_ok \in BOOLEAN : initialize_schema(r, schema_ok)
    \/ \E r \in Slots, test_ok \in BOOLEAN : initialize_test(r, test_ok)
    \/ \E r \in Slots : Quiescent /\ shutdown(r)
    \/ \E r \in Slots, dispose_ok \in BOOLEAN : shutdown_dispose(r, dispose_ok)

SpecManager == Init /\ [][NextManager]_vars

\* the step in which slot r calls initialize()
InitializeCallStep(r) ==
    /\ Answered(r)
    /\ req'[r].op = "initialize"
    /\ req'[r] # req[r]

\* the step in which the shutdown of slot r returns after a dispose that did
\* not raise
ShutdownDoneStep(r) ==
    /\ req[r].pc = "dispose"
    /\ req'[r].pc = "done"
    /\ req'[r].failure = "none"

\* C24: initialize on an initialized manager changes nothing; the flag is set
\* only while the engine and the session factory are set; a shutdown whose
\* dispose succeeded leaves engine, session factory and flag reset.
C24_InitializeIdempotentFlagConsistent ==
    [][/\ db_manager'.initialized =>
             /\ db_manager'.engine # 0
             /\ db_manager'.sessionmaker # NoSessionmaker
       /\ \A r \in Slots :
             /\ (InitializeCallStep(r) /\ db_manager.initialized) =>
                   /\ db_manager' = db_manager
                   /\ req'[r].pc = "done"
                   /\ req'[r].failure = "none"
             /\ ShutdownDoneStep(r) =>
                   /\ db_manager'.engine = 0
                   /\ db_manager'.sessionmaker = NoSessionmaker
                   /\ ~db_manager'.initialized
      ]_vars

\* initialize has returned at its guard on a manager that was initialized a
\* second time after a shutdown
C24_Witness ==
    \E r \in Slots :
        /\ req[r].op = "initialize"
        /\ req[r].pc = "done"
        /\ req[r].engine # 0
        /\ req[r].engine = db_manager.engine
        /\ db_manager.initialized
        /\ db_manager.sessionmaker = async_sessionmaker(db_manager.engine)
        /\ db_manager.disposed # {}

(***************************************************************************)
(* Specification of the privileged fields: principals with different scopes *)
(* send bodies that set `disabled` or `scopes` to both update endpoints.    *)
(***************************************************************************)
PrivilegeCreateInputs ==
    {[username |-> "alice", email |-> NULL, full_name |-> NULL, disabled |-> FALSE,
      scopes |-> sc, password |-> "Secret123!"] :
        sc \in {S_admin_user, S_superadmin_user}}

PrivilegePayloads ==
    {DisablePayload,
     Payload({"scopes", "full_name"}, [NoValues EXCEPT !.scopes = S_user])}

NextPrivilege ==
    \/ \E r \in Slots, user \in PrivilegeCreateInputs : register_user(r, user)
    \/ \E r \in Slots : create_user_flush(r)
    \/ \E r \in Slots : get_session_commit(r)
    \/ \E r \in Slots : login_for_access_token(r, "alice", "Secret123!")
    \/ \E r \in Slots, token \in issued, payload \in PrivilegePayloads :
          update_own_user(r, token, payload)
    \/ \E r \in Slots, token \in issued, user_id \in 1..MaxId,
          payload \in PrivilegePayloads :
          update_user(r, token, user_id, payload)
    \/ \E r \in Slots : update_select(r)
    \/ \E r \in Slots : update_commit(r)

SpecPrivilege == Init /\ [][NextPrivilege]_vars

\* some persisted principal's disabled flag or scopes differ after the step
PrivilegedFieldChanges ==
    \E x \in users : \E y \in users' :
        /\ y.id = x.id
        /\ y.disabled # x.disabled \/ y.scopes # x.scopes

\* C25: a step changes the disabled flag or the scopes of a persisted
\* principal only if it is the commit of PATCH /users/{user_id} requested by a
\* principal that is not disabled with a token that carries the scope admin.
C25_PrivilegedFieldsOnlyByAdmin ==
    [][PrivilegedFieldChanges =>
          \E r \in Slots :
              /\ UpdateCommitStep(r)
              /\ req[r].op = "update_user"
              /\ S_admin \in ScopeWords(req[r].token.scopes)
              /\ ~req[r].current_user.disabled
      ]_vars

(***************************************************************************)
(* Specification of the explicit transaction of the update handlers: the    *)
(* handler's session is the authorizer's session or one of its own.         *)
(***************************************************************************)
\* the session the handler receives.  `shared` says that get_db handed the
\* handler the session object it handed get_current_user (the dependency
\* override of the tests yields one session to every caller); get_user has
\* then run its SELECT on it and the session has begun a transaction.
HandlerSession(shared) == [NoSession EXCEPT !.in_transaction = shared]

\* db.begin() on a session that is in a transaction raises
\* InvalidRequestError, which no handler catches
begin_raises(session) == session.in_transaction

\* the dependencies of an update endpoint and the handler up to
\* `async with db.begin()`
update_begin(r, op, endpoint_scopes, schema_fields, token, user_id, payload, shared) ==
    /\ Free(r)
    /\ LET a == Authorize(endpoint_scopes, token, users, now)
           arrived == [IdleRequest EXCEPT !.op = op,
                                          !.token = token,
                                          !.security_scopes = SecurityScopes(endpoint_scopes),
                                          !.user_id = user_id,
                                          !.update_data = model_dump(schema_fields, payload),
                                          !.failure = a.failure]
           session == HandlerSession(shared)
       IN  req' = [req EXCEPT ![r] =
                     IF a.failure # "none"
                     THEN [arrived EXCEPT !.pc = "done", !.response = a.response]
                     ELSE IF begin_raises(session)
                     THEN [arrived EXCEPT !.pc = "done",
                                          !.current_user = a.user,
                                          !.session = session,
                                          !.failure = "InvalidRequestError",
                                          !.response = InternalServerError]
                     ELSE [arrived EXCEPT !.pc = "select",
                                          !.current_user = a.user,
                                          !.session = [session EXCEPT
                                                          !.in_transaction = TRUE]]]
    /\ UNCHANGED <<users, nextId, now, issued, db_manager, issued_to>>

NextBegin ==
    \/ \E r \in Slots, user \in LoginCreateInputs : register_user(r, user)
    \/ \E r \in Slots : create_user_flush(r)
    \/ \E r \in Slots : get_session_commit(r)
    \/ \E r \in Slots : login_for_access_token(r, "alice", "Secret123!")
    \/ \E r \in Slots, token \in issued, payload \in StorePayloads, shared \in BOOLEAN :
          update_begin(r, "update_own", MeScopes, ProfileFields, token, 0, payload,
                       shared)
    \/ \E r \in Slots, token \in issued, user_id \in 1..MaxId,
          payload \in StorePayloads, shared \in BOOLEAN :
          update_begin(r, "update_user", AdminScopes,
                       ProfileFields \cup PrivilegedFields, token, user_id, payload,
                       shared)
    \/ \E r \in Slots : update_select(r)
    \/ \E r \in Slots : update_commit(r)

SpecBegin == Init /\ [][NextBegin]_vars

\* C26: an update request that passed the authorizer opens its explicit
\* transaction on a session that is not in a transaction, also when that
\* session is the one the authorizer looked the principal up on, and the
\* begin does not fail.
C26_BeginNeverFails ==
    \A r \in Slots :
        ( /\ req[r].op \in UpdateOps
          /\ req[r].current_user # NoRow )
        => req[r].failure # "InvalidRequestError"

(***************************************************************************)
(* Specification of tokens that outlive a change of the stored scopes.      *)
(***************************************************************************)
\* PATCH /users/{user_id} with a body that leaves the principal the scope user
ScopesPayload == Payload({"scopes"}, [NoValues EXCEPT !.scopes = S_user])

NextStale ==
    \/ \E r \in Slots, user \in TokenCreateInputs : register_user(r, user)
    \/ \E r \in Slots : create_user_flush(r)
    \/ \E r \in Slots : get_session_commit(r)
    \/ \E r \in Slots : login_for_access_token(r, "alice", "Secret123!")
    \/ \E r \in Slots, token \in issued, user_id \in 1..MaxId :
          update_user(r, token, user_id, ScopesPayload)
    \/ \E r \in Slots : update_select(r)
    \/ \E r \in Slots : update_commit(r)
    \/ \E r \in Slots, token \in issued : read_system_status(r, token)
    \/ Tick

SpecStale == Init /\ [][NextStale]_vars

\* the step in which request r arrives at GET /status/
StatusStep(r) ==
    /\ Answered(r)
    /\ req'[r] # req[r]
    /\ req'[r].op = "status"

\* C27: a request to GET /status/ with a token that is accepted at that
\* instant and names a principal that is not disabled is authorized exactly
\* when the scopes in the token cover the required scopes, whatever scopes the
\* principal has in the store; with a token that is no longer accepted it is
\* not authorized.
C27_ScopeDecisionFromTokenOnly ==
    [][\A r \in Slots :
          StatusStep(r)
          => LET q == req'[r]
                 active == \E x \in users : x.username = q.token.sub /\ ~x.disabled
             IN  /\ (ValidToken(q) /\ active)
                        => (q.response.status = 200 <=> SufficientlyScoped(q))
                 /\ ~ValidToken(q) => q.response.status # 200
      ]_vars

\* GET /status/ was answered 200 for a token with the scope admin whose
\* principal has only the scope user in the store
C27_Witness ==
    \E r \in Slots :
        /\ req[r].op = "status"
        /\ req[r].pc = "done"
        /\ req[r].response.status = 200
        /\ str_contains(S_admin, req[r].token.scopes)
        /\ \E x \in users : /\ x.username = req[r].token.sub
                            /\ x.scopes = S_user

(***************************************************************************)
(* Specification of tokens and the identity they resolve to: principals     *)
(* register, log in, are renamed, and their old usernames are registered    *)
(* again.                                                                  *)
(***************************************************************************)
NextIdentity ==
    \/ \E r \in Slots, user \in LoginCreateInputs : register_user(r, user)
    \/ \E r \in Slots : create_user_flush(r)
    \/ \E r \in Slots : get_session_commit(r)
    \/ \E r \in Slots, username \in Usernames :
          login_for_access_token(r, username, "Secret123!")
    \/ \E r \in Slots, token \in issued : update_own_user(r, token, RenamePayload)
    \/ \E r \in Slots : update_select(r)
    \/ \E r \in Slots : update_commit(r)
    \/ \E r \in Slots, token \in issued : read_users_me(r, token)

SpecIdentity == Init /\ [][NextIdentity]_vars

\* C28: a request the authorizer accepted with a token of the login endpoint
\* runs as a principal that endpoint issued the token to.
C28_TokenResolvesToItsPrincipal ==
    \A r \in Slots :
        ( /\ req[r].op \in AuthOps
          /\ req[r].token \in issued
          /\ req[r].current_user # NoRow )
        => <<req[r].token, req[r].current_user.id>> \in issued_to

(***************************************************************************)
(* Specification of the store manager under overlapping calls: a call may   *)
(* begin while another is suspended at an await.                            *)
(***************************************************************************)
NextManagerRace ==
    \/ \E r \in Slots, op \in ManagerCalls, parameters_ok \in BOOLEAN :
          initialize(r, op, parameters_ok)
    \/ \E r \in Slots, schema_ok \in BOOLEAN : initialize_schema(r, schema_ok)
    \/ \E r \in Slots, test_ok \in BOOLEAN : initialize_test(r, test_ok)
    \/ \E r \in Slots : shutdown(r)
    \/ \E r \in Slots, dispose_ok \in BOOLEAN : shutdown_dispose(r, dispose_ok)

SpecManagerRace == Init /\ [][NextManagerRace]_vars

\* C29: while no initialize has failed and no shutdown has run, at most one
\* engine has been created, every created engine is the manager's engine or
\* has been disposed, and once no call is in progress and an engine exists the
\* manager is initialized with a session factory bound to that engine.
C29_EngineCreatedOnce ==
    db_manager.clean =>
        /\ Cardinality(db_manager.created) <= 1
        /\ \A engine \in db_manager.created :
              engine = db_manager.engine \/ engine \in db_manager.disposed
        /\ (Quiescent /\ db_manager.created # {}) =>
              /\ db_manager.initialized
              /\ db_manager.sessionmaker = async_sessionmaker(db_manager.engine)

\* the step in which a login request arrives at slot r and is answered
LoginStep(r) ==
    /\ Answered(r)
    /\ req'[r] # req[r]
    /\ req'[r].op = "login"

\* the token of request q was issued by the login endpoint to a principal
\* that is disabled now
TokenOfDisabledPrincipal(q) ==
    /\ q.token \in issued
    /\ \E x \in users : x.username = q.token.sub /\ x.disabled

\* C30: a login whose username names a principal and whose password verifies
\* against that principal's digest is answered with a token for that
\* principal, whether the principal is disabled or not, and no login is
\* answered "Inactive user"; a request behind the active check that presents
\* a token of a disabled principal is never served, and is answered 400
\* "Inactive user" once its token is accepted and sufficiently scoped.
C30_DisabledPrincipalLogsIn ==
    [][\A r \in Slots :
          /\ LoginStep(r)
             => LET q == req'[r]
                IN  /\ (\E x \in users :
                           /\ x.username = q.user.username
                           /\ verify_password(q.user.password, x.hashed_password))
                       => /\ q.response.status = 200
                          /\ q.response.body \in issued'
                          /\ q.response.body.sub = q.user.username
                          /\ q.current_user \in users
                    /\ q.response # inactive_user
          /\ (ActiveCheckStep(r) /\ TokenOfDisabledPrincipal(req'[r]))
             => LET q == req'[r]
                IN  /\ q.pc = "done"
                    /\ q.response.status \in {400, 401}
                    /\ q.failure = "inactive" <=> q.response = inactive_user
                    /\ (jwt_decode(q.token, now) = "ok" /\ SufficientlyScoped(q))
                           => q.response = inactive_user]_vars

\* C30 witness: a disabled principal has presented the correct password and
\* been answered with a token, and that token has then been answered 400
\* "Inactive user" at a protected endpoint.
C30_Witness ==
    \E r1, r2 \in Slots :
        /\ req[r1].op = "login"
        /\ req[r1].response.status = 200
        /\ req[r1].current_user.disabled
        /\ req[r2].op \in ActiveOps
        /\ req[r2].token = req[r1].response.body
        /\ req[r2].response = inactive_user

====
